---- MODULE Spec2Model ----
(***************************************************************************)
(* A state-machine model of lexxy's <lexxy-prompt> element                 *)
(* (src/src/elements/prompt.js) and of its three prompt sources            *)
(* (InlinePromptSource, DeferredPromptSource, RemoteFilterSource).         *)
(*                                                                         *)
(* JavaScript runs one task at a time.  A handler runs synchronously up to *)
(* its first await of something that is not yet settled; continuations of  *)
(* already-settled promises (microtasks) run before any other event, so a  *)
(* chain of them is part of the step that started it.  The points where    *)
(* other events can interleave are the network retrievals, the debounce    *)
(* timer and nextFrame(): each suspended continuation is an entry of       *)
(* `tasks`, resumed by its own action.                                     *)
(***************************************************************************)
EXTENDS Integers, Sequences, FiniteSets, TLC

VARIABLES
  attrs,   \* the element's attributes: [src, remoteFiltering, space,
           \* editable, emptyResults]
  doc,     \* the editor selection: the selected node's kind, text and
           \* offset, and what the last update put before that node
  el,      \* the fields and DOM state of the LexicalPromptElement
  source,  \* the fields of the prompt source (this.source)
  tasks,   \* suspended async continuations, oldest first
  hist,    \* history of the run: retrievals issued, cache writes and
           \* sessions opened, each counted up to 2, and the place in the
           \* selected node of the trigger that was last matched, and
           \* whether the last rendering took the highlight back from
           \* beyond the first entry
  geometry, \* whether the run tells pixel coordinates apart: without it
           \* every cursor x is 0 and the popover always fits the viewport
  dlog,    \* history of the calls made on the source itself: calls, bursts
           \* and retrievals of the debounce runs, and the last filter with
           \* the list items returned for it
  editor   \* the rest of the editor, where a specification is about it: the
           \* block nodes and the selection FormatEscaper works on

vars == <<attrs, doc, el, source, tasks, hist, geometry, dlog, editor>>

----------------------------------------------------------------------------
(* Bounds *)

MaxLen == 2          \* longest text of the selected node
MaxInlineLen == 3    \* the same, for a prompt with inline prompt items
MaxFilterLen == 2    \* longest filter passed to buildListItems directly
MaxItems == 2        \* most prompt items in the element or in a response
MaxTasks == 2        \* continuations suspended on the source at one time
MaxCalls == 3        \* buildListItems calls in one debounce run
MaxFrames == 2       \* continuations waiting for one animation frame

(* Program constants *)

DEBOUNCE_INTERVAL == 200

NOTHING_FOUND_DEFAULT_MESSAGE == "Nothing found"

(* The trigger attribute of the modelled element, and the characters the   *)
(* selected text node is made of.                                          *)
Trigger == "@"

Chars == {"@", " ", "\n", "a"}

(* Time advances in steps of half the debounce window. *)
TickMs == DEBOUNCE_INTERVAL \div 2

Min(a, b) == IF a < b THEN a ELSE b

(* The name attribute of the modelled element. *)
Name == "mention"

----------------------------------------------------------------------------
(* The selection, as the listeners read it *)

\* String.prototype.lastIndexOf on the text before the cursor (0-based, -1
\* when absent).
LastIndexOf(text, ch) ==
  LET hits == {i \in 1..Len(text) : text[i] = ch}
  IN IF hits = {} THEN -1
     ELSE (CHOOSE i \in hits : \A j \in hits : j <= i) - 1

TextBeforeCursor(d) == SubSeq(d.text, 1, d.offset)

\* contents.containsTextBackUntil(trigger): the selected node is a text node
\* and its text before the cursor includes the trigger.
ContainsTextBackUntil(d) ==
  /\ d.kind = "text"
  /\ LastIndexOf(TextBeforeCursor(d), Trigger) # -1

\* contents.textBackUntil(trigger): the text between the last trigger and
\* the cursor, "" when there is none.
TextBackUntil(d) ==
  IF ContainsTextBackUntil(d)
  THEN SubSeq(d.text, LastIndexOf(TextBeforeCursor(d), Trigger) + 2, d.offset)
  ELSE <<>>

\* The open condition had it forgotten the newline.
IsPrecededBySpaceOrNewlineNoNewline(d) ==
  /\ d.offset > 1
  /\ d.text[d.offset - 1] = " "

IsPrecededBySpaceOrNewline(d) ==
  /\ d.offset > 1
  /\ d.text[d.offset - 1] \in {" ", "\n"}

\* The condition under which the trigger listener opens the popover.
TriggerMatches(d) ==
  /\ d.kind = "text"
  /\ d.offset > 0
  /\ d.text[d.offset] = Trigger
  /\ (d.offset = 1 \/ IsPrecededBySpaceOrNewline(d))

\* The condition under which the cursor-position listener hides the popover.
CursorLeftTrigger(d) ==
  CASE d.kind = "none" -> FALSE
    [] d.kind = "text" /\ d.offset > 0 ->
         LET lastTriggerIndex == LastIndexOf(TextBeforeCursor(d), Trigger)
         IN lastTriggerIndex = -1 \/ d.offset <= lastTriggerIndex
    [] OTHER -> TRUE

----------------------------------------------------------------------------
(* Prompt items and local filtering *)

\* The search attribute of prompt item i.
SearchKey(i) == IF i % 2 = 1 THEN <<"A">> ELSE <<"b", "a">>

ToLower(c) == IF c = "A" THEN "a" ELSE c

LowerCase(s) == [i \in 1..Len(s) |-> ToLower(s[i])]

\* string_helper.filterMatches: case-insensitive substring match.
FilterMatches(text, filter) ==
  LET t == LowerCase(text)
      f == LowerCase(filter)
  IN \E k \in 0..(Len(t) - Len(f)) : SubSeq(t, k + 1, k + Len(f)) = f

RECURSIVE SelectMatching(_, _)
SelectMatching(promptItems, filter) ==
  IF promptItems = <<>> THEN <<>>
  ELSE LET rest == SelectMatching(Tail(promptItems), filter)
           promptItem == Head(promptItems)
       IN IF filter = <<>> \/ FilterMatches(SearchKey(promptItem), filter)
          THEN <<promptItem>> \o rest
          ELSE rest

\* The prompt items <<1, .., n>>.
FirstItems(n) == [i \in 1..n |-> i]

\* The sgid attribute of prompt item i: the even items have none (null).
Sgid(i) == IF i % 2 = 1 THEN <<"sgid", i>> ELSE <<>>

\* The innerHTML of the template[type='editor'] of prompt item i.
Template(i) == <<"em", i>>

----------------------------------------------------------------------------
(* The prompt sources.  A call of buildListItems either resolves within the *)
(* step ("resolved"), starts a network retrieval ("net") or arms the        *)
(* debounce timer ("timer").                                                *)

Resolved(s, items) == [src |-> s, status |-> "resolved", items |-> items]

Pending(s, status) == [src |-> s, status |-> status, items |-> <<>>]

\* InlinePromptSource.fetchPromptItems
InlineFetchPromptItems(s) == Resolved(s, s.inline)

\* DeferredPromptSource.fetchPromptItems:
\*   this.promptItems ??= await this.loadPromptItemsFromUrl(this.url)
\* The left side is read before the await: a call that finds it unset starts
\* a retrieval of its own, and assigns the cache when that retrieval ends.
DeferredFetchPromptItems(s) ==
  IF s.loaded THEN Resolved(s, s.promptItems) ELSE Pending(s, "net")

\* A #buildListItemsFromPromptItems that keeps the association table that is
\* there and adds nothing to it.
BuildListItemsFromPromptItemsOnce(s, promptItems) == s

\* #buildListItemsFromPromptItems, of LocalFilterSource and of
\* RemoteFilterSource, for the prompt items that pass the filter:
\*   this.promptItemByListItem = new WeakMap()
\* and one new list item per prompt item, set as its key.  table holds the
\* prompt items of the table by the place of their list item in the list
\* returned; the new list items are in no popover yet (attached).
BuildListItemsFromPromptItems(s, promptItems) ==
  [s EXCEPT !.table = promptItems, !.attached = FALSE]

\* A buildListItems that returns every prompt item, whatever the filter.
LocalBuildListItemsUnfiltered(s, filter) ==
  LET fetched == IF s.kind = "inline" THEN InlineFetchPromptItems(s)
                 ELSE DeferredFetchPromptItems(s)
  IN IF fetched.status = "resolved"
     THEN Resolved(BuildListItemsFromPromptItems(fetched.src, fetched.items),
                   fetched.items)
     ELSE fetched

\* LocalFilterSource.buildListItems
LocalBuildListItems(s, filter) ==
  LET fetched == IF s.kind = "inline" THEN InlineFetchPromptItems(s)
                 ELSE DeferredFetchPromptItems(s)
  IN IF fetched.status = "resolved"
     THEN Resolved(BuildListItemsFromPromptItems(
                     fetched.src, SelectMatching(fetched.items, filter)),
                   SelectMatching(fetched.items, filter))
     ELSE fetched

\* timing_helpers.debounceAsync(fn, wait): a call clears the pending timer
\* and arms a new one; fn runs when the timer fires.
DebounceAsync(s) ==
  Pending([s EXCEPT !.timer = [on |-> TRUE, left |-> DEBOUNCE_INTERVAL]], "timer")

\* RemoteFilterSource.buildListItems had it called
\* fetchFilteredListItems directly, without debounceAsync.
RemoteBuildListItemsNoDebounce(s, filter) == Pending(s, "net")

\* RemoteFilterSource.buildListItems
RemoteBuildListItems(s, filter) == DebounceAsync(s)

\* RemoteFilterSource.#urlFor: the filter sent as the query parameter.
UrlFor(filter) == [url |-> "baseURL", filter |-> filter]

\* source.buildListItems(filter), dispatched on the source's class.
BuildListItems(s, filter) ==
  IF s.kind = "remote" THEN RemoteBuildListItems(s, filter)
  ELSE LocalBuildListItems(s, filter)

\* The query a retrieval started for `filter` carries.
QueryOf(s, filter) ==
  IF s.kind = "remote" THEN UrlFor(filter) ELSE [url |-> "url", filter |-> <<>>]

----------------------------------------------------------------------------
(* Suspended continuations, oldest first.  kind is the function that       *)
(* suspended ("ctor", "show", "filter", "hide", "call"), pc the place, wait *)
(* what it waits for ("net", "timer", "frame").  superseded marks a         *)
(* retrieval after whose start the popover has been rendered again.         *)

Task(kind, pc, wait, filter) ==
  [kind |-> kind, pc |-> pc, wait |-> wait, filter |-> filter,
   query |-> [url |-> "", filter |-> <<>>], superseded |-> FALSE]

RECURSIVE Without(_, _)
Without(ts, wait) ==
  IF ts = <<>> THEN <<>>
  ELSE IF Head(ts).wait = wait THEN Without(Tail(ts), wait)
       ELSE <<Head(ts)>> \o Without(Tail(ts), wait)

RECURSIVE Only(_, _)
Only(ts, wait) ==
  IF ts = <<>> THEN <<>>
  ELSE IF Head(ts).wait = wait THEN <<Head(ts)>> \o Only(Tail(ts), wait)
       ELSE Only(Tail(ts), wait)

RemoveAt(ts, i) == SubSeq(ts, 1, i - 1) \o SubSeq(ts, i + 1, Len(ts))

\* The first n continuations' retrievals are older than what is rendered.
Supersede(ts, n) ==
  [j \in DOMAIN ts |->
     IF j <= n /\ ts[j].wait = "net" THEN [ts[j] EXCEPT !.superseded = TRUE]
     ELSE ts[j]]

\* A retrieval of `query` starts for the continuation t.
Retrieving(w, t, query) ==
  [w EXCEPT !.hist.issued = Min(@ + 1, 2),
            !.tasks = Append(@, [t EXCEPT !.wait = "net", !.query = query])]

\* The caller of buildListItems suspends on the pending result r.  A
\* debounced call replaces the one waiting for the timer, whose promise is
\* never settled.
Suspend(w, r, kind, pc, filter) ==
  IF r.status = "net"
  THEN Retrieving([w EXCEPT !.src = r.src], Task(kind, pc, "net", filter),
                  QueryOf(r.src, filter))
  ELSE [w EXCEPT !.src = r.src,
                 !.tasks = Append(Without(@, "timer"),
                                  Task(kind, pc, "timer", filter))]

----------------------------------------------------------------------------
(* LexicalPromptElement.  The handlers are functions of the world          *)
(* w = [attrs, doc, el, src, tasks, hist, geometry].                       *)

\* get open: the popover carries lexxy-prompt-menu--visible.
IsOpen(e) == e.built /\ e.visible

\* The selection: a node of some kind, the text of a text node and the
\* cursor's offset in it; `inserted` are the nodes the last update put
\* before this node, `before` the text of the node before those.
Selected(kind, text, offset) ==
  [kind |-> kind, text |-> text, offset |-> offset,
   before |-> <<>>, inserted |-> <<>>]

\* #clearSelection
ClearSelection(w) ==
  [w EXCEPT !.el.selected = 0,
            !.el.ariaControls = FALSE,
            !.el.ariaActive = 0]

\* #selectOption(listItem), listItem being entry i of the popover.
SelectOption(w, i) ==
  [ClearSelection(w) EXCEPT !.el.selected = i,
                            !.el.ariaControls = TRUE,
                            !.el.ariaActive = i]

\* #selectFirstOption: the empty-results entry is no .lexxy-prompt-menu__item.
SelectFirstOption(w) ==
  IF Len(w.el.items) > 0 THEN SelectOption(w, 1) ELSE w

\* popoverElement.innerHTML = "": the entries go, with their aria-selected;
\* the editor's aria-activedescendant keeps the id of a removed entry (-1).
ClearPopover(w) ==
  [w EXCEPT !.el.items = <<>>,
            !.el.empty = FALSE,
            !.el.message = "",
            !.el.selected = 0,
            !.el.ariaActive = IF @ = 0 THEN 0 ELSE -1]

\* #showResults
ShowResults(w, listItems) ==
  [w EXCEPT !.el.items = listItems, !.el.empty = FALSE,
            !.src.attached = TRUE]

\* A message that does not look at the attribute.
EmptyResultsMessageDefaultOnly(w) == NOTHING_FOUND_DEFAULT_MESSAGE

\* get #emptyResultsMessage: an absent or empty attribute gives the default.
EmptyResultsMessage(w) ==
  IF w.attrs.emptyResults # "" THEN w.attrs.emptyResults
  ELSE NOTHING_FOUND_DEFAULT_MESSAGE

\* #showEmptyResults: one li.lexxy-prompt-menu__item--empty with the message.
ShowEmptyResults(w) ==
  [w EXCEPT !.el.empty = TRUE, !.el.message = EmptyResultsMessage(w)]

\* #showFilteredOptions, from the resolution of buildListItems on: the list
\* items replace the popover's, whatever has happened since the call.  The
\* `older` oldest continuations were suspended before this one.
\* A rendering that leaves the highlight to the arrows.
ShowFilteredOptionsResumeKeeping(w, listItems, older) ==
  LET cleared == [ClearPopover(w) EXCEPT !.tasks = Supersede(@, older),
                                         !.hist.moved = w.el.visible
                                                          /\ w.el.selected > 1
                                                          /\ Len(listItems) > 0]
      shown == IF Len(listItems) > 0 THEN ShowResults(cleared, listItems)
               ELSE ShowEmptyResults(cleared)
  IN IF w.el.selected \in 1..Len(listItems)
     THEN SelectOption(shown, w.el.selected)
     ELSE SelectFirstOption(shown)

\* hist.moved records that the rendering replaced a visible list whose
\* highlight was beyond the first entry by a list of entries.
ShowFilteredOptionsResume(w, listItems, older) ==
  LET cleared == [ClearPopover(w) EXCEPT !.tasks = Supersede(@, older),
                                         !.hist.moved = w.el.visible
                                                          /\ w.el.selected > 1
                                                          /\ Len(listItems) > 0]
      shown == IF Len(listItems) > 0 THEN ShowResults(cleared, listItems)
               ELSE ShowEmptyResults(cleared)
  IN SelectFirstOption(shown)

\* #addTriggerListener
AddTriggerListener(w) == [w EXCEPT !.el.triggerListeners = @ + 1]

\* #addCursorPositionListener: the field is overwritten, the listener it
\* held stays registered with the editor.
AddCursorPositionListener(w) ==
  [w EXCEPT !.el.cursorPositionListener = TRUE,
            !.el.cursorRegistrations = @ + 1]

\* #removeCursorPositionListener
RemoveCursorPositionListener(w) ==
  IF w.el.cursorPositionListener
  THEN [w EXCEPT !.el.cursorPositionListener = FALSE,
                 !.el.cursorRegistrations = @ - 1]
  ELSE w

\* A Space that selects whatever the attributes are.
DoesSpaceSelectAlways(w) == TRUE

\* get #doesSpaceSelect
DoesSpaceSelect(w) == ~w.attrs.space

\* #registerKeyListeners
\* A registration that leaves the arrows to the editor.
RegisterKeyListenersWithoutArrows(w) ==
  [w EXCEPT !.el.keyListeners =
     @ \o <<"Enter", "Tab">>
       \o (IF DoesSpaceSelect(w) THEN <<"Space">> ELSE <<>>)]

RegisterKeyListeners(w) ==
  [w EXCEPT !.el.keyListeners =
     @ \o <<"Enter", "Tab">>
       \o (IF DoesSpaceSelect(w) THEN <<"Space">> ELSE <<>>)
       \o <<"ArrowUp", "ArrowDown">>]

\* #unregisterKeyListeners
UnregisterKeyListeners(w) == [w EXCEPT !.el.keyListeners = <<>>]

\* #hidePopover up to its await of nextFrame(); the rest is resumed by Frame.
\* A #hidePopover that does not go on after the frame.
HidePopoverNotRearming(w) ==
  LET hidden == [ClearSelection(w) EXCEPT !.el.visible = FALSE,
                                          !.hist.moved = FALSE,
                                          !.el.change = FALSE,
                                          !.el.keydown = FALSE]
  IN RemoveCursorPositionListener(UnregisterKeyListeners(hidden))

HidePopover(w) ==
  LET hidden == [ClearSelection(w) EXCEPT !.el.visible = FALSE,
                                          !.hist.moved = FALSE,
                                          !.el.change = FALSE,
                                          !.el.keydown = FALSE]
      removed == RemoveCursorPositionListener(UnregisterKeyListeners(hidden))
  IN [removed EXCEPT !.tasks = Append(@, Task("hide", "frame", "frame", <<>>))]

\* #showPopover from the resolution of #filterOptions on.
ShowPopoverResume(w) ==
  LET visible == [w EXCEPT !.el.visible = TRUE,
                           !.hist.opens =
                             IF w.src.kind = "deferred" /\ ~w.el.visible
                             THEN Min(@ + 1, 2) ELSE @]
      listening == [SelectFirstOption(visible) EXCEPT !.el.keydown = TRUE,
                                                      !.el.change = TRUE]
  IN AddCursorPositionListener(RegisterKeyListeners(listening))

\* #filterOptions from the resolution of #showFilteredOptions on: it awaits
\* nextFrame() and then positions the popover.  Positioning twice in one
\* frame is positioning once.
AwaitFrame(w, kind) ==
  LET t == Task(kind, "position", "frame", <<>>)
      waiting == Only(w.tasks, "frame")
  IN IF kind = "filter" /\ waiting # <<>> /\ waiting[Len(waiting)] = t THEN w
     ELSE [w EXCEPT !.tasks = Append(@, t)]

\* #showFilteredOptions up to and including `await buildListItems(filter)`.
ShowFilteredOptions(w, kind) ==
  LET filter == TextBackUntil(w.doc)
      r == BuildListItems(w.src, filter)
  IN IF r.status = "resolved"
     THEN AwaitFrame(ShowFilteredOptionsResume([w EXCEPT !.src = r.src],
                                               r.items, Len(w.tasks)), kind)
     ELSE Suspend(w, r, kind, "fetch", filter)

\* selection.cursorPosition.x: the cursor's x-coordinate, one unit per
\* character of the text before it.
CursorX(w) == IF w.geometry /\ w.doc.kind = "text" THEN w.doc.offset ELSE 0

\* A reset that leaves data-clipped-at-bottom in place.
ResetPopoverPositionAnchorOnly(w) == [w EXCEPT !.el.anchored = FALSE]

\* #resetPopoverPosition
ResetPopoverPosition(w) ==
  [w EXCEPT !.el.clipped = FALSE, !.el.anchored = FALSE]

\* #filterOptions, called by #showPopover (kind "show": #showPopover resumes
\* when it resolves) or by the lexxy:change listener (kind "filter").
\* initialPrompt is never set.  #hidePopover is not awaited, and a
\* #showPopover that awaits this call goes on after it.
FilterOptions(w, kind) ==
  IF ContainsTextBackUntil(w.doc)
  THEN ShowFilteredOptions(w, kind)
  ELSE IF kind = "show" THEN ShowPopoverResume(HidePopover(w))
       ELSE HidePopover(w)

\* #buildPopover from the resolution of buildListItems() on, and then
\* #showPopover up to its await of #filterOptions.
BuildPopoverResume(w, listItems) ==
  LET built == [w EXCEPT !.el.built = TRUE,
                         !.el.visible = FALSE,
                         !.el.items = listItems,
                         !.el.empty = FALSE,
                         !.el.message = "",
                         !.el.selected = 0,
                         !.src.attached = TRUE]
  IN FilterOptions(ResetPopoverPosition(built), "show")

\* #showPopover: this.popoverElement ??= await this.#buildPopover()
ShowPopover(w) ==
  IF w.el.built THEN FilterOptions(ResetPopoverPosition(w), "show")
  ELSE LET r == BuildListItems(w.src, <<>>)
       IN IF r.status = "resolved"
          THEN BuildPopoverResume([w EXCEPT !.src = r.src], r.items)
          ELSE Suspend(w, r, "show", "build", <<>>)

----------------------------------------------------------------------------
(* The editor's update notification *)

RECURSIVE ShowPopoverTimes(_, _)
ShowPopoverTimes(w, n) ==
  IF n = 0 THEN w ELSE ShowPopoverTimes(ShowPopover(w), n - 1)

\* The listener #addCursorPositionListener registers.
CursorPositionListener(w) ==
  IF IsOpen(w.el) /\ CursorLeftTrigger(w.doc) THEN HidePopover(w) ELSE w

\* The listener #addTriggerListener registers, run for each registration:
\* on a match it unregisters itself and calls #showPopover.
TriggerListener(w) ==
  IF TriggerMatches(w.doc)
  THEN ShowPopoverTimes([w EXCEPT !.el.triggerListeners = 0,
                                  !.hist.anchor = w.doc.offset],
                        w.el.triggerListeners)
  ELSE w

\* One editor update: lexxy:change when the value changed, then the update
\* listeners the element has registered.
Notify(w, valueChanged) ==
  LET changed == IF valueChanged /\ w.el.change THEN FilterOptions(w, "filter")
                 ELSE w
      tracked == IF changed.el.cursorRegistrations > 0
                 THEN CursorPositionListener(changed)
                 ELSE changed
  IN IF tracked.el.triggerListeners > 0 THEN TriggerListener(tracked)
     ELSE tracked

----------------------------------------------------------------------------
(* Keys and clicks *)

Range(f) == {f[i] : i \in DOMAIN f}

\* contents.replaceTextBackUntil(stringToReplace, nodes): the last
\* stringToReplace before the cursor gives way to the nodes and one space,
\* and the cursor stands after that space.  The text before it stays in the
\* node before the inserted ones, the text after the cursor follows the
\* space.  Nothing happens when the text before the cursor does not end
\* with stringToReplace.
ReplaceTextBackUntil(w, stringToReplace, nodes) ==
  LET d == w.doc
      start == d.offset - Len(stringToReplace)
  IN IF /\ d.kind = "text"
        /\ start >= 0
        /\ SubSeq(d.text, start + 1, d.offset) = stringToReplace
     THEN [w EXCEPT !.doc =
             [kind |-> "text",
              text |-> <<" ">> \o SubSeq(d.text, d.offset + 1, Len(d.text)),
              offset |-> 1,
              before |-> SubSeq(d.text, 1, start),
              inserted |-> nodes]]
     ELSE w

\* $generateNodesFromDOM(editor, parseHtml(html)): the Lexical nodes of the
\* template's markup, here one formatted text node.
GenerateNodesFromDOM(html) ==
  <<[type |-> "text", format |-> html[1], text |-> html[2]]>>

\* new CustomActionTextAttachmentNode({ sgid, contentType, innerHtml })
CustomActionTextAttachmentNode(sgid, contentType, innerHtml) ==
  [type |-> "custom_action_text_attachment",
   sgid |-> sgid,
   contentType |-> IF contentType # <<>> THEN contentType
                   ELSE <<"application/vnd.actiontext.", "unknown">>,
   innerHtml |-> innerHtml]

\* An attachment whose content type leaves the prompt's name out.
InsertTemplateAsAttachmentUnnamed(w, promptItem, template, stringToReplace) ==
  ReplaceTextBackUntil(w, stringToReplace,
    <<CustomActionTextAttachmentNode(Sgid(promptItem), <<>>, template)>>)

\* An editable-text insertion that wraps the template in an attachment.
InsertTemplateAsEditableTextWrapped(w, template, stringToReplace) ==
  ReplaceTextBackUntil(w, stringToReplace,
    <<CustomActionTextAttachmentNode(<<>>, <<>>, template)>>)

\* #insertTemplateAsEditableText
InsertTemplateAsEditableText(w, template, stringToReplace) ==
  ReplaceTextBackUntil(w, stringToReplace, GenerateNodesFromDOM(template))

\* #insertTemplateAsAttachment: the sgid attribute is passed on as it is.
InsertTemplateAsAttachment(w, promptItem, template, stringToReplace) ==
  LET attachmentNode ==
        CustomActionTextAttachmentNode(Sgid(promptItem),
                                       <<"application/vnd.actiontext.", Name>>,
                                       template)
  IN ReplaceTextBackUntil(w, stringToReplace, <<attachmentNode>>)

\* #replaceTriggerWithSelectedItem: nothing is inserted when no list item is
\* selected.
\* source.promptItemFor(listItem) for the i-th entry of the popover (0 for
\* undefined, when no entry is selected): the entry is a key of the table
\* when the list items of the table are the ones in the popover, and then it
\* is the i-th of them.  0 stands for undefined.
PromptItemFor(s, i) ==
  IF s.attached /\ i \in 1..Len(s.table) THEN s.table[i] ELSE 0

\* A replacement that, with nothing highlighted, takes the first prompt
\* item of the source.
ReplaceTriggerWithSelectedItemOrFirst(w) ==
  LET promptItem == IF w.el.selected = 0 THEN 1
                    ELSE PromptItemFor(w.src, w.el.selected)
      template == Template(promptItem)
      stringToReplace == <<Trigger>> \o TextBackUntil(w.doc)
  IN IF w.attrs.editable
     THEN InsertTemplateAsEditableText(w, template, stringToReplace)
     ELSE InsertTemplateAsAttachment(w, promptItem, template, stringToReplace)

ReplaceTriggerWithSelectedItem(w) ==
  IF PromptItemFor(w.src, w.el.selected) = 0 THEN w
  ELSE LET promptItem == PromptItemFor(w.src, w.el.selected)
           template == Template(promptItem)
           stringToReplace == <<Trigger>> \o TextBackUntil(w.doc)
       IN IF w.attrs.editable
          THEN InsertTemplateAsEditableText(w, template, stringToReplace)
          ELSE InsertTemplateAsAttachment(w, promptItem, template,
                                          stringToReplace)

\* #optionWasSelected, and the editor update the insertion commits.
OptionWasSelected(w) ==
  LET replaced == ReplaceTriggerWithSelectedItem(w)
      hidden == HidePopover(replaced)
  IN IF replaced.doc # w.doc
     THEN Notify([hidden EXCEPT !.hist.anchor = 0], TRUE)
     ELSE hidden

\* A keydown handler that takes Escape for a selection.
HandleKeydownOnPopoverSelecting(w, key) ==
  IF key = "Escape" THEN OptionWasSelected(w) ELSE w

\* #handleKeydownOnPopover
HandleKeydownOnPopover(w, key) ==
  IF key = "Escape" THEN HidePopover(w) ELSE w

\* A selection that goes round from the last entry to the first.
MoveSelectionDownWrapping(w) ==
  IF Len(w.el.items) = 0 THEN w
  ELSE SelectOption(w, (w.el.selected % Len(w.el.items)) + 1)

\* #moveSelectionDown: #selectedIndex is -1 when no entry is selected.
MoveSelectionDown(w) ==
  LET nextIndex == (w.el.selected - 1) + 1
  IN IF nextIndex < Len(w.el.items) THEN SelectOption(w, nextIndex + 1) ELSE w

\* A #moveSelectionUp that does not stop at the first entry.
MoveSelectionUpUnguarded(w) == SelectOption(w, (w.el.selected - 1) - 1 + 1)

\* #moveSelectionUp
MoveSelectionUp(w) ==
  LET previousIndex == (w.el.selected - 1) - 1
  IN IF previousIndex >= 0 THEN SelectOption(w, previousIndex + 1) ELSE w

----------------------------------------------------------------------------
(* Resumptions *)

\* A positioning that sets style.left every time.
PositionPopoverReanchoring(w, isClippedAtBottom) ==
  LET below == [w EXCEPT !.el.left = CursorX(w),
                         !.el.anchored = TRUE,
                         !.el.above = FALSE,
                         !.el.measured = isClippedAtBottom]
  IN IF isClippedAtBottom \/ below.el.clipped
     THEN [below EXCEPT !.el.above = TRUE, !.el.clipped = TRUE]
     ELSE below

\* #positionPopover
\* with the popover's bottom edge below the viewport or not, as measured
\* (isClippedAtBottom).  style.left is set from the cursor's x only while
\* data-anchored is absent; the popover goes above the cursor line when it
\* is clipped or data-clipped-at-bottom is present.
PositionPopover(w, isClippedAtBottom) ==
  LET anchored == IF ~w.el.anchored
                  THEN [w EXCEPT !.el.left = CursorX(w),
                                 !.el.anchored = TRUE]
                  ELSE w
      below == [anchored EXCEPT !.el.above = FALSE,
                                !.el.measured = isClippedAtBottom]
  IN IF isClippedAtBottom \/ below.el.clipped
     THEN [below EXCEPT !.el.above = TRUE, !.el.clipped = TRUE]
     ELSE below

\* The continuation t after nextFrame().
FrameResume(w, t, isClippedAtBottom) ==
  CASE t.kind = "hide" -> AddTriggerListener(w)
    [] t.kind = "show" ->
         ShowPopoverResume(PositionPopover(w, isClippedAtBottom))
    [] OTHER -> PositionPopover(w, isClippedAtBottom)

RECURSIVE FrameResumeAll(_, _, _)
FrameResumeAll(w, ts, isClippedAtBottom) ==
  IF ts = <<>> THEN w
  ELSE FrameResumeAll(FrameResume(w, Head(ts), isClippedAtBottom), Tail(ts),
                      isClippedAtBottom)

\* The debounce timer fires: fetchFilteredListItems(filter) starts the
\* retrieval of #urlFor(filter).
TimerFired(w) ==
  LET i == CHOOSE j \in DOMAIN w.tasks : w.tasks[j].wait = "timer"
  IN [w EXCEPT !.src.timer = [on |-> FALSE, left |-> 0],
               !.hist.issued = Min(@ + 1, 2),
               !.tasks[i].wait = "net",
               !.tasks[i].query = UrlFor(w.tasks[i].filter)]

\* DeferredPromptSource.fetchPromptItems resumes: the cache is assigned.
AssignPromptItems(w, response) ==
  [w EXCEPT !.src.promptItems = response,
            !.src.loaded = TRUE,
            !.hist.writes = Min(@ + 1, 2)]

\* loadPromptItemsFromUrl resolves with `response` for the continuation t,
\* which `older` suspended continuations precede.
RetrievalResolved(w, t, older, response) ==
  LET stored == IF w.src.kind = "deferred" THEN AssignPromptItems(w, response)
                ELSE w
      listItems == IF w.src.kind = "deferred"
                   THEN SelectMatching(response, t.filter)
                   ELSE response
      listed == [stored EXCEPT
                   !.src = BuildListItemsFromPromptItems(@, listItems)]
  IN CASE t.pc = "build" -> BuildPopoverResume(listed, listItems)
       [] t.pc = "fetch" ->
            AwaitFrame(ShowFilteredOptionsResume(listed, listItems, older),
                       t.kind)
       [] t.pc = "call" -> listed
       [] OTHER -> stored

----------------------------------------------------------------------------
(* Construction *)

\* A choice of source that tests remote-filtering before src.
CreateSourceRemoteFirst(a, inlinePromptItems) ==
  [kind |-> IF a.remoteFiltering
            THEN "remote"
            ELSE IF a.src THEN "deferred" ELSE "inline",
   inline |-> IF a.src THEN <<>> ELSE inlinePromptItems,
   loaded |-> FALSE,
   promptItems |-> <<>>,
   table |-> <<>>,
   attached |-> FALSE,
   timer |-> [on |-> FALSE, left |-> 0]]

\* #createSource
CreateSource(a, inlinePromptItems) ==
  [kind |-> IF a.src
            THEN IF a.remoteFiltering THEN "remote" ELSE "deferred"
            ELSE "inline",
   inline |-> IF a.src THEN <<>> ELSE inlinePromptItems,
   loaded |-> FALSE,
   promptItems |-> <<>>,
   table |-> <<>>,
   attached |-> FALSE,
   timer |-> [on |-> FALSE, left |-> 0]]

\* The source's constructor: DeferredPromptSource calls fetchPromptItems().
SourceConstructor(w) ==
  IF w.src.kind = "deferred"
  THEN Suspend(w, DeferredFetchPromptItems(w.src), "ctor", "ctor", <<>>)
  ELSE w

\* new LexicalPromptElement()
Constructed(a, inlinePromptItems) ==
  [attrs |-> a,
   doc |-> Selected("other", <<>>, 0),
   el |-> [built |-> FALSE, visible |-> FALSE, items |-> <<>>, empty |-> FALSE,
           message |-> "",
           left |-> 0, anchored |-> FALSE, clipped |-> FALSE,
           above |-> FALSE, measured |-> FALSE,
           selected |-> 0, ariaControls |-> FALSE, ariaActive |-> 0,
           keyListeners |-> <<>>, cursorPositionListener |-> FALSE,
           cursorRegistrations |-> 0, keydown |-> FALSE, change |-> FALSE,
           triggerListeners |-> 0],
   src |-> CreateSource(a, inlinePromptItems),
   tasks |-> <<>>,
   hist |-> [issued |-> 0, writes |-> 0, opens |-> 0, anchor |-> 0,
            moved |-> FALSE],
   geometry |-> FALSE]

\* connectedCallback
ConnectedCallback(a, inlinePromptItems) ==
  AddTriggerListener(SourceConstructor(Constructed(a, inlinePromptItems)))

\* The attributes src, remote-filtering, supports-space-in-searches,
\* insert-editable-text and empty-results ("" when absent).
Attributes ==
  [src : BOOLEAN, remoteFiltering : BOOLEAN, space : BOOLEAN,
   editable : BOOLEAN, emptyResults : {"", "No matches"}]

\* The prompt alone: nothing of the rest of the editor is told.
NoEditor == [kind |-> "none"]

NoDebounceLog ==
  [calls |-> 0, bursts |-> 0, since |-> 0, last |-> <<>>, fired |-> <<>>,
   listItems |-> <<>>]

W == [attrs |-> attrs, doc |-> doc, el |-> el, src |-> source,
      tasks |-> tasks, hist |-> hist, geometry |-> geometry]

Is(w) ==
  /\ attrs = w.attrs
  /\ doc = w.doc
  /\ el = w.el
  /\ source = w.src
  /\ tasks = w.tasks
  /\ hist = w.hist
  /\ geometry = w.geometry

\* The bound of a run.
Bounded(w) ==
  /\ Len(Without(w.tasks, "frame")) <= MaxTasks
  /\ Len(Only(w.tasks, "frame")) <= MaxFrames

\* The continuations waiting for the frame and those waiting for the source
\* are resumed by different events: only the order within each matters.
Queued(ts) == Only(ts, "frame") \o Without(ts, "frame")

Becomes(w) ==
  /\ Bounded(w)
  /\ attrs' = w.attrs
  /\ doc' = w.doc
  /\ el' = w.el
  /\ source' = w.src
  /\ tasks' = Queued(w.tasks)
  /\ hist' = w.hist
  /\ geometry' = w.geometry
  /\ editor' = editor

\* The element is connected with one of the attribute sets `as`; an inline
\* source is given up to MaxItems prompt items.
Connected(as) ==
  /\ \E a \in as : \E n \in 0..MaxItems :
       Is(ConnectedCallback(a, FirstItems(n)))
  /\ dlog = NoDebounceLog
  /\ editor = NoEditor

Init == Connected(Attributes)

----------------------------------------------------------------------------
(* Actions of the prompt element *)

Unselected == Selected("other", <<>>, 0)

\* The longest text of the selected node in this run.
TextBound ==
  IF source.kind = "inline" /\ ~geometry THEN MaxInlineLen ELSE MaxLen

\* Text c is inserted at the cursor; on an element it starts a text node.
\* A matched trigger behind the cursor moves on by one.
InsertText(c) ==
  /\ doc.kind # "none"
  /\ LET d == IF doc.kind = "text"
              THEN Selected("text",
                            SubSeq(doc.text, 1, doc.offset) \o <<c>>
                              \o SubSeq(doc.text, doc.offset + 1, Len(doc.text)),
                            doc.offset + 1)
              ELSE Selected("text", <<c>>, 1)
         anchor == IF doc.kind # "text" THEN 0
                   ELSE IF hist.anchor > doc.offset THEN hist.anchor + 1
                   ELSE hist.anchor
     IN /\ Len(d.text) <= TextBound
        /\ Becomes(Notify([W EXCEPT !.doc = d, !.hist.anchor = anchor], TRUE))
  /\ UNCHANGED dlog

\* The character before the cursor is deleted; an emptied text node goes.
Backspace ==
  /\ doc.kind = "text"
  /\ doc.offset > 0
  /\ LET t == SubSeq(doc.text, 1, doc.offset - 1)
              \o SubSeq(doc.text, doc.offset + 1, Len(doc.text))
         d == IF t = <<>> THEN Unselected
              ELSE Selected("text", t, doc.offset - 1)
         anchor == IF t = <<>> \/ hist.anchor = doc.offset THEN 0
                   ELSE IF hist.anchor > doc.offset THEN hist.anchor - 1
                   ELSE hist.anchor
     IN Becomes(Notify([W EXCEPT !.doc = d, !.hist.anchor = anchor], TRUE))
  /\ UNCHANGED dlog

\* The cursor moves within the text node.
MoveCursor(offset) ==
  /\ doc.kind = "text"
  /\ offset # doc.offset
  /\ offset <= Len(doc.text)
  /\ Becomes(Notify([W EXCEPT !.doc = Selected("text", doc.text, offset)],
                     FALSE))
  /\ UNCHANGED dlog

\* The selection leaves the text node: for an element ("other") or for
\* nothing at all ("none").
LeaveTextNode(kind) ==
  /\ doc.kind # kind
  /\ Becomes(Notify([W EXCEPT !.doc = Selected(kind, <<>>, 0),
                               !.hist.anchor = 0], FALSE))
  /\ UNCHANGED dlog

\* The selection moves onto another text node, at `offset` of its `text`.
MoveToTextNode(text, offset) ==
  /\ doc.kind = "text"
  /\ offset \in 1..Len(text)
  /\ Becomes(Notify([W EXCEPT !.doc = Selected("text", text, offset),
                               !.hist.anchor = 0], FALSE))
  /\ UNCHANGED dlog

\* #handleKeydownOnPopover with Escape
Escape ==
  /\ el.keydown
  /\ Becomes(HandleKeydownOnPopover(W, "Escape"))
  /\ UNCHANGED dlog

\* #handleSelectedOption, the command handler of Enter, Tab and Space.
HandleSelectedOption(key) ==
  /\ key \in Range(el.keyListeners)
  /\ Becomes(OptionWasSelected(W))
  /\ UNCHANGED dlog

\* #handleArrowUp
HandleArrowUp ==
  /\ "ArrowUp" \in Range(el.keyListeners)
  /\ Becomes(MoveSelectionUp(W))
  /\ UNCHANGED dlog

\* #handleArrowDown
HandleArrowDown ==
  /\ "ArrowDown" \in Range(el.keyListeners)
  /\ Becomes(MoveSelectionDown(W))
  /\ UNCHANGED dlog

\* #handlePopoverClick on entry i of the visible popover; i = 0 is a click
\* with no .lexxy-prompt-menu__item around it, as on the empty-results entry.
HandlePopoverClick(i) ==
  /\ IsOpen(el)
  /\ i \in 0..Len(el.items)
  /\ i = 0 => el.empty
  /\ Becomes(IF i > 0 THEN OptionWasSelected(SelectOption(W, i)) ELSE W)
  /\ UNCHANGED dlog

\* The debounce window passes and the timer fires.
TimerFire ==
  /\ source.timer.on
  /\ Becomes(TimerFired(W))
  /\ UNCHANGED dlog

\* The retrieval continuation i waits for resolves with n prompt items.
RetrievalResolve(i, n) ==
  /\ i \in DOMAIN tasks
  /\ tasks[i].wait = "net"
  /\ Becomes(RetrievalResolved([W EXCEPT !.tasks = RemoveAt(@, i)],
                               tasks[i], i - 1, FirstItems(n)))
  /\ UNCHANGED dlog

\* The retrieval continuation i waits for rejects: the rejection propagates
\* through every caller, none of which catches it.
RetrievalReject(i) ==
  /\ i \in DOMAIN tasks
  /\ tasks[i].wait = "net"
  /\ Becomes([W EXCEPT !.tasks = RemoveAt(@, i)])
  /\ UNCHANGED dlog

\* An animation frame: every continuation waiting on nextFrame() resumes, in
\* the order they were suspended.  The popover, as it is rendered in this
\* frame, reaches below the viewport or does not.
Frame ==
  /\ Only(tasks, "frame") # <<>>
  /\ \E isClippedAtBottom \in (IF geometry THEN BOOLEAN ELSE {FALSE}) :
       Becomes(FrameResumeAll([W EXCEPT !.tasks = Without(@, "frame")],
                              Only(tasks, "frame"), isClippedAtBottom))
  /\ UNCHANGED dlog

\* The texts of the other text nodes of the document.
OtherTexts == {<<"a">>, <<"a", Trigger>>}

\* What the user does in the editor, and the animation frame.
Editing ==
  \/ \E c \in Chars : InsertText(c)
  \/ Backspace
  \/ \E offset \in 0..MaxLen : MoveCursor(offset)
  \/ \E kind \in {"other", "none"} : LeaveTextNode(kind)
  \/ \E text \in OtherTexts : \E offset \in 1..MaxLen :
       MoveToTextNode(text, offset)
  \/ Escape
  \/ \E key \in {"Enter", "Tab", "Space"} : HandleSelectedOption(key)
  \/ HandleArrowUp
  \/ HandleArrowDown
  \/ \E i \in 0..MaxItems : HandlePopoverClick(i)
  \/ Frame

\* What the network does.
Network ==
  \/ \E i \in DOMAIN tasks : \E n \in 0..MaxItems : RetrievalResolve(i, n)
  \/ \E i \in DOMAIN tasks : RetrievalReject(i)

Next == Editing \/ Network \/ TimerFire

\* A prompt of any source.
Spec == Init /\ [][Next]_vars

\* A prompt with inline prompt items (InlinePromptSource).
InlineAttributes ==
  {a \in Attributes : /\ ~a.src /\ ~a.remoteFiltering
                      /\ ~a.editable /\ a.emptyResults = ""}

SpecInline == Connected(InlineAttributes) /\ [][Editing]_vars

\* The same, with or without insert-editable-text.
InsertingAttributes ==
  {a \in Attributes : /\ ~a.src /\ ~a.remoteFiltering
                      /\ ~a.space /\ a.emptyResults = ""}

SpecInserting == Connected(InsertingAttributes) /\ [][Editing]_vars

\* The same, with or without empty-results.
EmptyResultsAttributes ==
  {a \in Attributes : /\ ~a.src /\ ~a.remoteFiltering
                      /\ ~a.space /\ ~a.editable}

SpecEmptyResults == Connected(EmptyResultsAttributes) /\ [][Editing]_vars

\* The same with default attributes, in a window where coordinates are told
\* apart: the user types, moves the cursor within the text and presses
\* Escape.
PositioningAttributes == InlineAttributes \cap InsertingAttributes

ConnectedMeasured ==
  /\ \E a \in PositioningAttributes : \E n \in 0..MaxItems :
       Is([ConnectedCallback(a, FirstItems(n)) EXCEPT !.geometry = TRUE])
  /\ dlog = NoDebounceLog
  /\ editor = NoEditor

Positioning ==
  \/ \E c \in Chars : InsertText(c)
  \/ Backspace
  \/ \E offset \in 0..MaxLen : MoveCursor(offset)
  \/ Escape
  \/ Frame

SpecPositioning == ConnectedMeasured /\ [][Positioning]_vars

\* The same prompt where sessions are opened and closed in each of the four
\* ways, and every continuation waiting on nextFrame() is resumed in the
\* end: the browser runs the callbacks of requestAnimationFrame.
Closing ==
  \/ \E c \in Chars : InsertText(c)
  \/ Backspace
  \/ \E offset \in 0..MaxLen : MoveCursor(offset)
  \/ Escape
  \/ HandleSelectedOption("Enter")
  \/ Frame

SpecClosing ==
  Connected(PositioningAttributes) /\ [][Closing]_vars /\ WF_vars(Frame)

\* A prompt with src and no remote-filtering (DeferredPromptSource).
DeferredAttributes ==
  {a \in Attributes : /\ a.src /\ ~a.remoteFiltering /\ ~a.space
                      /\ ~a.editable /\ a.emptyResults = ""}

SpecDeferred == Connected(DeferredAttributes) /\ [][Editing \/ Network]_vars

\* A prompt with src and remote-filtering (RemoteFilterSource).
RemoteAttributes ==
  {a \in Attributes : /\ a.src /\ a.remoteFiltering /\ ~a.space
                      /\ ~a.editable /\ a.emptyResults = ""}

\* What the network does for a remote source: a retrieval is answered with
\* no prompt item or with MaxItems of them, or it fails.
RemoteNetwork ==
  \/ \E i \in DOMAIN tasks : \E n \in {0, MaxItems} : RetrievalResolve(i, n)
  \/ \E i \in DOMAIN tasks : RetrievalReject(i)

RemoteFiltering == Editing \/ RemoteNetwork \/ TimerFire

SpecRemote == Connected(RemoteAttributes) /\ [][RemoteFiltering]_vars

\* The same prompt where the user types and deletes the trigger and a
\* filter and clicks on an entry, while the timer fires and the retrievals
\* complete in any order, each with no prompt item or with MaxItems.
Selecting ==
  \/ \E c \in {Trigger, "a"} : InsertText(c)
  \/ Backspace
  \/ \E i \in 0..MaxItems : HandlePopoverClick(i)
  \/ Frame
  \/ TimerFire
  \/ \E i \in DOMAIN tasks : \E n \in {0, MaxItems} : RetrievalResolve(i, n)

SpecRemoteSelecting == Connected(RemoteAttributes) /\ [][Selecting]_vars

----------------------------------------------------------------------------
(* RemoteFilterSource under a clock: buildListItems is called on the       *)
(* source, the clock advances by TickMs, and a due timer fires before the  *)
(* clock advances further.  dlog records the calls and the retrievals.     *)

\* The filter after n keystrokes of a word.
Typed(n) == [i \in 1..n |-> "a"]

\* The retrievals a step started: the continuations of `after` that wait
\* for the network beyond those of `before`.
Started(before, after) ==
  SubSeq(Only(after, "net"), Len(Only(before, "net")) + 1,
         Len(Only(after, "net")))

\* The log entries of the retrievals `started`, in the log d.
Logged(d, started) ==
  [i \in DOMAIN started |->
     [age |-> d.since, query |-> started[i].query, last |-> d.last,
      burst |-> d.bursts]]

\* setTimeout's clock: ms pass for the source's timer.
Elapse(s, ms) ==
  IF s.timer.on THEN [s EXCEPT !.timer.left = @ - ms] ELSE s

\* source.buildListItems(filter), awaited by a caller.
DCall(filter) ==
  /\ dlog.calls < MaxCalls
  /\ ~(source.timer.on /\ source.timer.left = 0)
  /\ LET w == Suspend(W, BuildListItems(source, filter), "call", "call", filter)
         d == [dlog EXCEPT !.calls = @ + 1,
                           !.bursts = IF dlog.calls = 0
                                         \/ dlog.since >= DEBOUNCE_INTERVAL
                                      THEN @ + 1 ELSE @,
                           !.since = 0,
                           !.last = filter]
     IN /\ Becomes(w)
        /\ dlog' = [d EXCEPT !.fired = @ \o Logged(d, Started(tasks, w.tasks))]

\* TickMs pass.
DTick ==
  /\ dlog.calls > 0
  /\ dlog.since < DEBOUNCE_INTERVAL
  /\ source.timer.on => source.timer.left > 0
  /\ Becomes([W EXCEPT !.src = Elapse(@, TickMs)])
  /\ dlog' = [dlog EXCEPT !.since = Min(@ + TickMs, DEBOUNCE_INTERVAL)]

\* The timer is due and fires.
DFire ==
  /\ source.timer.on
  /\ source.timer.left = 0
  /\ LET w == TimerFired(W)
     IN /\ Becomes(w)
        /\ dlog' = [dlog EXCEPT !.fired = @ \o Logged(dlog, Started(tasks, w.tasks))]

Clock ==
  \/ \E n \in 0..MaxLen : DCall(Typed(n))
  \/ DTick
  \/ DFire

SpecDebounce == Connected(RemoteAttributes) /\ [][Clock \/ Network]_vars

\* A prompt with any combination of src and remote-filtering.
SourceAttributes ==
  {a \in Attributes : ~a.space /\ ~a.editable /\ a.emptyResults = ""}

\* buildListItems is called on the source with the empty filter or with
\* "a", the clock advances and the retrievals complete, each with no prompt
\* item or with MaxItems, or fail.
Calling ==
  \/ \E n \in 0..1 : DCall(Typed(n))
  \/ DTick
  \/ DFire
  \/ \E i \in DOMAIN tasks : \E n \in {0, MaxItems} : RetrievalResolve(i, n)
  \/ \E i \in DOMAIN tasks : RetrievalReject(i)

\* The source of any prompt under the clock.
SpecSources == Connected(SourceAttributes) /\ [][Calling]_vars

----------------------------------------------------------------------------
(* LocalFilterSource called directly: buildListItems(filter) for any list  *)
(* of prompt items and any filter.  dlog records the filter and the list   *)
(* items returned.                                                         *)

\* The characters of the filters.
FilterChars == {"a", "A", "b"}

\* The filters of up to MaxFilterLen characters.
Filters == UNION {[1..n -> FilterChars] : n \in 0..MaxFilterLen}

\* The lists of up to MaxItems prompt items, in any order.
PromptItemLists == UNION {[1..n -> 1..MaxItems] : n \in 0..MaxItems}

\* source.buildListItems(filter) on an InlinePromptSource, or on a
\* DeferredPromptSource that has loaded its prompt items.
BuildListItemsCall(filter) ==
  /\ source.kind = "inline" \/ (source.kind = "deferred" /\ source.loaded)
  /\ LET r == BuildListItems(source, filter)
     IN /\ r.status = "resolved"
        /\ source' = r.src
        /\ dlog' = [dlog EXCEPT !.calls = 1, !.last = filter,
                                !.listItems = r.items]
  /\ UNCHANGED <<attrs, doc, el, tasks, hist, geometry, editor>>

\* A prompt without remote-filtering (LocalFilterSource).
LocalAttributes == InlineAttributes \cup DeferredAttributes

\* The element is connected with any list of inline prompt items.
ConnectedLocal ==
  /\ \E a \in LocalAttributes : \E promptItems \in PromptItemLists :
       Is(ConnectedCallback(a, promptItems))
  /\ dlog = NoDebounceLog
  /\ editor = NoEditor

Filtering == \E filter \in Filters : BuildListItemsCall(filter)

SpecLocalFilter == ConnectedLocal /\ [][Filtering \/ Network]_vars

----------------------------------------------------------------------------
(* Properties *)

\* The #showPopover calls that have not yet made the popover visible.
ShowCount(ts) == Cardinality({i \in DOMAIN ts : ts[i].kind = "show"})

\* The popover as a reader of the page finds it.
Overlay(e) ==
  [items |-> e.items, empty |-> e.empty, selected |-> e.selected,
   ariaActive |-> e.ariaActive, ariaControls |-> e.ariaControls,
   visible |-> e.visible]

\* C1: in an open session, the result of a retrieval that was issued before
\* the retrieval whose result the popover shows does not replace the
\* popover's entries when it completes after it.
C1_StaleRetrievalIgnored ==
  [][\A i \in DOMAIN tasks : \A n \in 0..MaxItems :
       (IsOpen(el) /\ tasks[i].superseded /\ RetrievalResolve(i, n))
         => el'.items = el.items]_vars

\* C2: a retrieval a session's lexxy:change started and that completes after
\* the session has closed leaves the entries, the highlighted entry, the
\* aria attributes and the visibility of the popover as the close left them.
C2_LateRetrievalIgnored ==
  [][\A i \in DOMAIN tasks : \A n \in 0..MaxItems :
       (~IsOpen(el) /\ ShowCount(tasks) = 0 /\ tasks[i].kind = "filter"
          /\ RetrievalResolve(i, n))
         => Overlay(el') = Overlay(el)]_vars

\* C3: a DeferredPromptSource never has two retrievals in flight: a fetch
\* made while the constructor's retrieval is pending awaits that retrieval.
C3_OneRetrievalInFlight == Len(Only(tasks, "net")) <= 1

\* C4: when the second session of a DeferredPromptSource prompt is open, the
\* source has issued exactly one retrieval since its construction.
C4_OneRetrievalAcrossSessions ==
  (IsOpen(el) /\ hist.opens = 2) => hist.issued = 1

\* C5: the promptItems cache of a DeferredPromptSource is assigned at most
\* once.
C5_CacheWrittenOnce == hist.writes <= 1

\* C6: the i-th retrieval of a RemoteFilterSource is the one of the i-th
\* burst of buildListItems calls: it is issued DEBOUNCE_INTERVAL after the
\* last call of the burst with that call's filter, and it has been issued
\* once the burst is DEBOUNCE_INTERVAL old and no timer is left.
C6_OneRetrievalPerBurst ==
  /\ \A i \in DOMAIN dlog.fired :
       /\ dlog.fired[i].burst = i
       /\ dlog.fired[i].age = DEBOUNCE_INTERVAL
       /\ dlog.fired[i].query.filter = dlog.fired[i].last
  /\ Len(dlog.fired) >= dlog.bursts - 1
  /\ (dlog.since = DEBOUNCE_INTERVAL /\ ~source.timer.on)
       => Len(dlog.fired) = dlog.bursts

\* A burst of two calls or more has ended with its one retrieval.
C6_BurstCollapsed ==
  /\ dlog.bursts = 1
  /\ dlog.calls >= 2
  /\ Len(dlog.fired) = 1
  /\ dlog.fired[1].query.filter = Typed(1)

\* The condition of section 4.2 on the selection d.
OpenCondition(d) ==
  /\ d.kind = "text"
  /\ d.offset > 0
  /\ d.text[d.offset] = Trigger
  /\ d.offset = 1 \/ d.text[d.offset - 1] \in {" ", "\n"}

\* A change of the document.
DocumentChange == (\E c \in Chars : InsertText(c)) \/ Backspace

\* The #hidePopover calls that have not yet registered the trigger listener.
HideCount(ts) == Cardinality({i \in DOMAIN ts : ts[i].kind = "hide"})

\* No session is open or being opened, and the trigger listener is
\* registered or a close is about to register it.
NoSession ==
  /\ ~IsOpen(el)
  /\ ShowCount(tasks) = 0
  /\ el.triggerListeners > 0 \/ HideCount(tasks) > 0

\* C7 as stated: while no session is open, a change of the document starts
\* a #showPopover if and only if OpenCondition holds after it.
C7_OpensWhileNoSession ==
  [][(DocumentChange /\ NoSession)
       => (ShowCount(tasks') > 0 <=> OpenCondition(doc'))]_vars

\* C7: while the trigger listener is registered, a change of the document
\* starts a #showPopover if and only if OpenCondition holds after it.
C7_OpensWhileListening ==
  [][(el.triggerListeners > 0 /\ DocumentChange)
       => (ShowCount(tasks') > ShowCount(tasks) <=> OpenCondition(doc'))]_vars

\* A trigger typed after a space has started a #showPopover.
C7_OpenedAfterSpace ==
  /\ doc = Selected("text", <<" ", Trigger>>, 2)
  /\ ShowCount(tasks) = 1
  /\ el.triggerListeners = 0
  /\ ~IsOpen(el)

\* C8: no trigger listener is registered while the popover is visible.
C8_ListenerOrSession == IsOpen(el) => el.triggerListeners = 0

\* C9: at most one set of session key handlers is registered.
C9_OneSetOfKeyHandlers ==
  Cardinality({i \in DOMAIN el.keyListeners : el.keyListeners[i] = "Enter"}) <= 1

\* C10: while the popover is not visible nothing a session registered is
\* left: no key handler, no cursor-position listener, no keydown and no
\* lexxy:change listener.
C10_NothingLeftRegistered ==
  ~IsOpen(el) =>
    /\ el.keyListeners = <<>>
    /\ ~el.cursorPositionListener
    /\ el.cursorRegistrations = 0
    /\ ~el.keydown
    /\ ~el.change

\* An editor update that leaves the selection in the node of the session's
\* trigger, or takes it out of any text node.
UpdateInNode ==
  \/ DocumentChange
  \/ \E offset \in 0..MaxInlineLen : MoveCursor(offset)
  \/ LeaveTextNode("other")

\* C11: while a session is open with the cursor after the trigger it was
\* opened at, and that trigger is still in the node, an update that leaves the cursor after that trigger keeps the
\* session open, and an update that puts the cursor before that trigger, or
\* outside a text node, closes the session.
C11_SessionFollowsCursor ==
  [][(/\ IsOpen(el)
      /\ hist.anchor > 0
      /\ doc.offset >= hist.anchor
      /\ UpdateInNode)
       => LET after == doc'.kind = "text" /\ doc'.offset >= hist'.anchor
          IN (doc'.kind = "text" => hist'.anchor > 0)
               => (IsOpen(el') <=> after)]_vars

\* C12: a session is closed by the cursor moving onto another text node,
\* whatever that node's text.
C12_OtherTextNodeCloses ==
  [][(/\ IsOpen(el)
      /\ \E text \in OtherTexts : \E offset \in 1..MaxLen :
           MoveToTextNode(text, offset))
       => ~IsOpen(el')]_vars

\* The retrieval that continuation i of a session waits for fails.
SessionRetrievalFails ==
  \E i \in DOMAIN tasks :
    tasks[i].kind \in {"show", "filter"} /\ RetrievalReject(i)

\* C13: when the retrieval of an opening or of a re-filter fails, the
\* popover holds the empty-results entry and nothing else, and the session
\* is open, or about to be made visible, with Escape and the commit keys
\* handled.
C13_FailureShowsEmptyResults ==
  [][SessionRetrievalFails
       => /\ el'.empty
          /\ el'.items = <<>>
          /\ IsOpen(el') \/ ShowCount(tasks') > 0
          /\ IsOpen(el') => el'.keydown /\ "Enter" \in Range(el'.keyListeners)]_vars

\* C14: a failed retrieval never leaves the prompt dead: a session is open,
\* or the trigger listener is registered, or the continuation that opens
\* the session or registers the listener is still to run.
C14_NeverDead ==
  \/ IsOpen(el)
  \/ el.triggerListeners > 0
  \/ ShowCount(tasks) > 0
  \/ HideCount(tasks) > 0

\* C15: with entry i of n highlighted, ArrowDown highlights entry
\* min(i + 1, n) and ArrowUp entry max(i - 1, 1), counting from 1: the
\* highlight stops at either end.  The entries and the session stay.
C15_ArrowsSaturate ==
  [][(IsOpen(el) /\ el.selected > 0)
       => /\ HandleArrowDown
               => el'.selected = Min(el.selected + 1, Len(el.items))
          /\ HandleArrowUp
               => el'.selected = IF el.selected > 1 THEN el.selected - 1 ELSE 1
          /\ (HandleArrowDown \/ HandleArrowUp)
               => /\ el'.ariaActive = el'.selected
                  /\ el'.items = el.items
                  /\ IsOpen(el')]_vars

\* ArrowDown has taken the highlight to the last of several entries.
C15_LastEntryHighlighted ==
  /\ IsOpen(el)
  /\ Len(el.items) = MaxItems
  /\ el.selected = Len(el.items)
  /\ el.selected > 1

\* C16: when filtering yields no candidate the popover holds exactly one
\* entry, the empty-results entry, which shows the empty-results attribute
\* or else "Nothing found".  That entry is never highlighted: the arrows
\* leave it so, the commit keys insert nothing, and a click on it neither
\* inserts anything nor closes the session.
C16_EmptyResultsEntry ==
  [][/\ (/\ el.change
         /\ DocumentChange
         /\ ContainsTextBackUntil(doc')
         /\ SelectMatching(source.inline, TextBackUntil(doc')) = <<>>)
          => el'.empty
     /\ el'.empty
          => /\ el'.items = <<>>
             /\ el'.selected = 0
             /\ el'.message = IF attrs.emptyResults # ""
                               THEN attrs.emptyResults ELSE "Nothing found"
     /\ (IsOpen(el) /\ el.empty)
          => /\ (HandleArrowDown \/ HandleArrowUp)
                  => el'.selected = 0 /\ doc' = doc /\ IsOpen(el')
             /\ (\E key \in {"Enter", "Tab", "Space"} : HandleSelectedOption(key))
                  => doc' = doc
             /\ HandlePopoverClick(0)
                  => doc' = doc /\ IsOpen(el') /\ el'.selected = 0]_vars

\* A filter that matches none of the prompt's items has put the
\* empty-results entry, with the attribute's message, into the open popover.
C16_NoMatchShown ==
  /\ IsOpen(el)
  /\ source.inline # <<>>
  /\ el.empty
  /\ el.items = <<>>
  /\ el.message = "No matches"

\* The last update has put the node of prompt item p in place of the
\* trigger and the filter text, and the session is closed.
Committed(d, e, p) ==
  /\ ~IsOpen(e)
  /\ Len(d.inserted) = 1
  /\ d.inserted[1].innerHtml = Template(p)

Commits(p) ==
  /\ IsOpen(el)
  /\ ContainsTextBackUntil(doc)
  /\ \/ /\ el.selected > 0
        /\ el.items[el.selected] = p
        /\ \E key \in {"Enter", "Tab", "Space"} : HandleSelectedOption(key)
     \/ \E i \in 1..Len(el.items) : el.items[i] = p /\ HandlePopoverClick(i)

\* The trigger and the filter text before the cursor are gone and nothing
\* else is: what stood before them and what stood after the cursor is kept,
\* around the inserted nodes and a space.
SpanReplaced ==
  /\ doc'.kind = "text"
  /\ doc'.text # <<>>
  /\ doc'.text[1] = " "
  /\ doc'.before \o <<Trigger>> \o TextBackUntil(doc) \o Tail(doc'.text)
       = doc.text

\* C18: without insert-editable-text, committing a candidate that has an
\* sgid replaces the trigger and the filter text by exactly one attachment
\* node with the candidate's sgid, the content type
\* application/vnd.actiontext.<name> and the markup of the candidate's
\* editor template.
C18_AttachmentInserted ==
  [][\A p \in 1..MaxItems :
       (~attrs.editable /\ Sgid(p) # <<>> /\ Commits(p))
         => /\ SpanReplaced
            /\ doc'.inserted =
                 <<[type |-> "custom_action_text_attachment",
                    sgid |-> <<"sgid", p>>,
                    contentType |-> <<"application/vnd.actiontext.", "mention">>,
                    innerHtml |-> <<"em", p>>]>>]_vars

\* An attachment has taken the place of a trigger that had text before it.
C18_AttachmentAfterText ==
  /\ ~attrs.editable
  /\ ~IsOpen(el)
  /\ Len(doc.inserted) = 1
  /\ doc.inserted[1].type = "custom_action_text_attachment"
  /\ doc.inserted[1].sgid # <<>>
  /\ doc.before # <<>>

\* C19: with insert-editable-text, committing a candidate replaces the
\* trigger and the filter text by the nodes parsed from the candidate's
\* editor template; no attachment node is made, and the candidate needs no
\* sgid.
C19_EditableTextInserted ==
  [][\A p \in 1..MaxItems :
       (attrs.editable /\ Commits(p))
         => /\ SpanReplaced
            /\ doc'.inserted = <<[type |-> "text", format |-> "em", text |-> p]>>
            /\ \A k \in DOMAIN doc'.inserted :
                 doc'.inserted[k].type # "custom_action_text_attachment"]_vars

\* The template of a candidate without sgid has been inserted as text.
C19_InsertedWithoutSgid ==
  /\ attrs.editable
  /\ ~IsOpen(el)
  /\ Len(doc.inserted) = 1
  /\ doc.inserted[1].type = "text"
  /\ Sgid(doc.inserted[1].text) = <<>>

\* C20: without insert-editable-text, committing a candidate that has no
\* sgid inserts nothing: the document is as it was, and the session closes.
C20_NoSgidNoInsertion ==
  [][\A p \in 1..MaxItems :
       (~attrs.editable /\ Sgid(p) = <<>> /\ Commits(p))
         => doc' = doc /\ ~IsOpen(el')]_vars

\* The prompt items of a LocalFilterSource.
PromptItemsOf(s) == IF s.kind = "inline" THEN s.inline ELSE s.promptItems

\* C21: buildListItems(filter) of a LocalFilterSource returns the list
\* items of exactly the prompt items whose search attribute contains the
\* filter, letter case apart, in the order of the prompt items; the empty
\* filter returns them all.
C21_LocalFilter ==
  LET f == LowerCase(dlog.last)
      Contains(p) ==
        LET t == LowerCase(SearchKey(p))
        IN \E k \in 0..Len(t) : /\ k + Len(f) <= Len(t)
                                /\ SubSeq(t, k + 1, k + Len(f)) = f
  IN dlog.calls > 0
       => /\ dlog.listItems = SelectSeq(PromptItemsOf(source), Contains)
          /\ dlog.last = <<>> => dlog.listItems = PromptItemsOf(source)

\* A filter has been applied to as many prompt items as there can be, and
\* has selected some of them and left others out.
C21_FilteredInOrder ==
  /\ dlog.calls > 0
  /\ dlog.last = <<"b">>
  /\ Len(PromptItemsOf(source)) = MaxItems
  /\ dlog.listItems # <<>>
  /\ dlog.listItems # PromptItemsOf(source)

\* C22: while a session stays open the popover's style.left does not
\* change, whatever the cursor does; it is set by the first positioning
\* after #showPopover has reset the position, from the cursor's x at that
\* moment.
C22_AnchoredOnce ==
  [][/\ (IsOpen(el) /\ IsOpen(el'))
          => el'.anchored /\ el'.left = el.left
     /\ (~el.anchored /\ el'.anchored)
          => el'.left = IF doc.kind = "text" THEN doc.offset ELSE 0]_vars

\* The popover of an open session has been rendered and positioned again
\* after the cursor moved on: its left is still the x of the opening.
C22_LeftKept ==
  /\ IsOpen(el)
  /\ el.anchored
  /\ Only(tasks, "frame") = <<>>
  /\ source.inline # <<>>
  /\ el.empty
  /\ doc.kind = "text"
  /\ el.left < doc.offset

\* C23: once a positioning of an open session has put the popover above the
\* cursor line, every later positioning of that session puts it there too,
\* clipped or not.  data-clipped-at-bottom is removed only by a
\* #showPopover, and every #showPopover removes it: the first positioning
\* of the new session puts the popover above only if it is clipped then.
C23_StaysFlipped ==
  [][/\ (IsOpen(el) /\ IsOpen(el') /\ el.clipped)
          => el'.clipped /\ el'.above
     /\ (IsOpen(el') /\ el'.measured) => el'.above
     /\ (el.clipped /\ ~el'.clipped) => ShowCount(tasks') > ShowCount(tasks)
     /\ ShowCount(tasks') > ShowCount(tasks) => ~el'.clipped
     /\ (~el.anchored /\ el'.anchored) => (el'.above <=> el'.measured)]_vars

\* The popover of an open session is held above the cursor line although
\* its last rendering fits below.
C23_HeldAbove ==
  /\ IsOpen(el)
  /\ Only(tasks, "frame") = <<>>
  /\ el.clipped
  /\ el.above
  /\ ~el.measured

\* C24: the source is chosen from the attributes src and remote-filtering
\* alone: without src it is an InlinePromptSource over the element's own
\* prompt items, with or without remote-filtering, and it never retrieves;
\* with src and remote-filtering it is a RemoteFilterSource; with src alone
\* it is a DeferredPromptSource.
C24_SourceChosen ==
  /\ (~attrs.src) => source.kind = "inline"
  /\ (attrs.src /\ attrs.remoteFiltering) => source.kind = "remote"
  /\ (attrs.src /\ ~attrs.remoteFiltering) => source.kind = "deferred"
  /\ source.kind = "inline" => Only(tasks, "net") = <<>> /\ ~source.timer.on
  /\ source.kind = "deferred" => ~source.timer.on
  /\ source.kind = "remote" => ~source.loaded

\* A prompt with remote-filtering and no src has answered buildListItems
\* from its inline prompt items.
C24_RemoteFilteringWithoutSrc ==
  /\ attrs.remoteFiltering
  /\ ~attrs.src
  /\ source.kind = "inline"
  /\ source.inline # <<>>
  /\ dlog.calls > 0

\* Nothing of a session is on the page: the popover is not visible and no
\* key handler, keydown or lexxy:change listener, or cursor-position
\* listener is registered.
Cancelled(e) ==
  /\ ~e.visible
  /\ e.keyListeners = <<>>
  /\ ~e.keydown
  /\ ~e.change
  /\ ~e.cursorPositionListener

\* C25: when the retrieval of an opening session's #buildPopover completes
\* and the text before the cursor no longer holds the trigger, the
\* #showPopover it resumes ends with the session cancelled.
C25_CancelledWhileOpening ==
  [][\A i \in DOMAIN tasks : \A n \in 0..MaxItems :
       (/\ tasks[i].kind = "show"
        /\ tasks[i].pc = "build"
        /\ ~ContainsTextBackUntil(doc)
        /\ RetrievalResolve(i, n))
         => Cancelled(el')]_vars

\* C26: at most one trigger listener is registered.
C26_OneTriggerListener == el.triggerListeners <= 1

\* A session has been open and none is open or being opened.
Closed == el.built /\ ~el.visible /\ ShowCount(tasks) = 0

\* C27: every step that closes a session leaves a #hidePopover waiting for
\* the frame, and whenever a session has closed the trigger listener is
\* registered in the end.
C27_ListenerRegisteredAgain ==
  /\ [][(IsOpen(el) /\ ~IsOpen(el')) => HideCount(tasks') > HideCount(tasks)]_vars
  /\ Closed ~> (el.triggerListeners > 0)

\* A session was closed by a commit, the frame has passed and the trigger
\* listener is registered.
C27_RearmedAfterCommit ==
  /\ Closed
  /\ doc.inserted # <<>>
  /\ tasks = <<>>
  /\ el.triggerListeners = 1

\* C28: Escape in an open session closes it and leaves the document as it
\* is; a move of the cursor that closes the session leaves the text of the
\* node, trigger and filter included, as it is, and nothing is inserted.
C28_CancelKeepsDocument ==
  [][/\ (IsOpen(el) /\ Escape) => (~IsOpen(el') /\ doc' = doc)
     /\ (IsOpen(el) /\ ~IsOpen(el')
           /\ \E offset \in 0..MaxInlineLen : MoveCursor(offset))
          => /\ doc'.kind = doc.kind
             /\ doc'.text = doc.text
             /\ doc'.before = doc.before
             /\ doc'.inserted = doc.inserted]_vars

\* A session was cancelled by Escape: it is closed, nothing was inserted, and
\* the trigger and the filter are still before the cursor.
C28_CancelledByEscape ==
  /\ el.built
  /\ ~el.visible
  /\ HideCount(tasks) = 1
  /\ ShowCount(tasks) = 0
  /\ doc.inserted = <<>>
  /\ doc.kind = "text"
  /\ doc.offset = 2
  /\ SubSeq(doc.text, 1, 2) = <<Trigger, "a">>

\* C29: while a session is open, a popover that lists entries has exactly
\* one of them highlighted (el.selected is the place of the entry carrying
\* aria-selected, 0 when none does), and a popover that lists none, the
\* empty-results entry apart, has nothing highlighted.
C29_HighlightInRange ==
  IsOpen(el) =>
    /\ Len(el.items) > 0 => el.selected \in 1..Len(el.items)
    /\ Len(el.items) = 0 => el.selected = 0

\* An open session lists MaxItems entries and the arrows have moved the
\* highlight to the last of them.
C29_LastHighlighted ==
  /\ IsOpen(el)
  /\ Only(tasks, "frame") = <<>>
  /\ Len(el.items) = MaxItems
  /\ el.selected = MaxItems

\* C30: a change of the document in an open session that is followed by a
\* list of entries leaves the first entry highlighted, wherever the
\* highlight was.
C30_HighlightReset ==
  [][(IsOpen(el) /\ el.change /\ IsOpen(el') /\ Len(el'.items) > 0
        /\ DocumentChange)
       => el'.selected = 1]_vars

\* The highlight had been moved beyond the first entry when the list was
\* rendered again, and it is on the first entry.
C30_ResetAfterArrows ==
  /\ IsOpen(el)
  /\ hist.moved
  /\ Len(el.items) > 1
  /\ el.selected = 1

\* The prompt consumes the key: a command handler of the prompt is
\* registered for it, at COMMAND_PRIORITY_HIGH, and each of these handlers
\* returns true.
Consumes(e, key) == key \in Range(e.keyListeners)

\* The keys of the session's command handlers.
SessionKeys == {"Enter", "Tab", "Space", "ArrowUp", "ArrowDown"}

\* C31: while a session is open the prompt consumes Enter, Tab, ArrowUp and
\* ArrowDown, and Space exactly when Space selects; while no session is
\* open it consumes none of these keys.
C31_KeysConsumedWhileOpen ==
  /\ IsOpen(el) =>
        /\ \A key \in {"Enter", "Tab", "ArrowUp", "ArrowDown"} :
             Consumes(el, key)
        /\ Consumes(el, "Space") <=> ~attrs.space
  /\ ~IsOpen(el) => \A key \in SessionKeys : ~Consumes(el, key)

\* A session is open on a prompt that supports spaces in searches: Enter,
\* Tab and the arrows are consumed, Space is left to the editor.
C31_SpaceLeftToEditor ==
  /\ IsOpen(el)
  /\ attrs.space
  /\ Consumes(el, "ArrowDown")
  /\ ~Consumes(el, "Space")

\* C32: the retrieval of #buildPopover is the one fetch of an opening: when
\* it completes and the popover is built from its result, the opening
\* session waits for nothing but the frame before it is made visible.
C32_OneInitialFetch ==
  [][(~el.built /\ el'.built)
       => \A i \in DOMAIN tasks' :
            tasks'[i].kind = "show" => tasks'[i].wait = "frame"]_vars

\* C33: while an open session shows the empty-results entry the prompt
\* consumes Enter and Tab, and Space when Space selects; the handler of
\* such a key leaves the document as it is, inserts nothing and closes the
\* session.
C33_CommitOnEmptyResults ==
  [][(IsOpen(el) /\ el.empty)
       => /\ Consumes(el, "Enter")
          /\ Consumes(el, "Tab")
          /\ ~attrs.space => Consumes(el, "Space")
          /\ (\E key \in {"Enter", "Tab", "Space"} : HandleSelectedOption(key))
               => /\ doc' = doc
                  /\ doc'.inserted = <<>>
                  /\ ~IsOpen(el')
                  /\ el'.keyListeners = <<>>]_vars

\* A session that showed the empty-results entry for "@ " has been closed
\* with the text and the cursor where they were and nothing inserted.
C33_ClosedOnEmptyResults ==
  /\ el.built
  /\ ~el.visible
  /\ el.empty
  /\ ~attrs.space
  /\ HideCount(tasks) = 1
  /\ doc = Selected("text", <<Trigger, " ">>, 2)

\* C34: every entry of the popover is a key of the source's association
\* table, and promptItemFor of it is the prompt item it was built from.
C34_EntriesAreKeys ==
  \A i \in DOMAIN el.items : PromptItemFor(source, i) = el.items[i]

\* The popover of an open session of a RemoteFilterSource shows the entries
\* of a retrieval that completed while an older one is still in flight.
C34_KeysOfLastCompleted ==
  /\ source.kind = "remote"
  /\ IsOpen(el)
  /\ Len(el.items) > 0
  /\ \E i \in DOMAIN tasks : tasks[i].wait = "net" /\ tasks[i].superseded
  /\ source.attached
  /\ source.table = el.items

\* ---------------------------------------------------------------------------
\* FormatEscaper: Enter in an empty list item or an empty blockquote paragraph.
\*
\* The block nodes are records [type, text, children]; the root holds
\* paragraphs, lists and blockquotes, a blockquote holds paragraphs and lists,
\* a list holds list items.  The selection's anchor is a path of child
\* indexes from the root to a paragraph or a list item.
\* ---------------------------------------------------------------------------

MaxListLen == 3

Texts == {"", "a"}

ParagraphNode(text) == [type |-> "paragraph", text |-> text, children |-> <<>>]

ListItemNode(text) == [type |-> "listitem", text |-> text, children |-> <<>>]

ListNode(items) == [type |-> "list", text |-> "", children |-> items]

QuoteNode(children) == [type |-> "quote", text |-> "", children |-> children]

ReplaceAt(seq, i, by) == SubSeq(seq, 1, i - 1) \o by \o SubSeq(seq, i + 1, Len(seq))

After(seq, i) == SubSeq(seq, i + 1, Len(seq))

\* #isNodeEmpty: no text but white space, and every child empty.
RECURSIVE IsNodeEmpty(_)
IsNodeEmpty(node) ==
  /\ node.text \in {"", " "}
  /\ \A i \in DOMAIN node.children : IsNodeEmpty(node.children[i])

NonEmptyNodes(nodes) ==
  LET keep(n) == ~IsNodeEmpty(n) IN SelectSeq(nodes, keep)

EmptyNodes(nodes) ==
  LET keep(n) == IsNodeEmpty(n) IN SelectSeq(nodes, keep)

\* #removeTrailingEmptyListItems and #removeTrailingEmptyNodes, on the
\* children of the list or blockquote: from the end, up to the first child
\* that is not empty.
RECURSIVE RemoveTrailingEmptyNodes(_)
RemoveTrailingEmptyNodes(nodes) ==
  IF nodes # <<>> /\ IsNodeEmpty(nodes[Len(nodes)])
    THEN RemoveTrailingEmptyNodes(SubSeq(nodes, 1, Len(nodes) - 1))
    ELSE nodes

\* The node the selection's anchor is in.
AnchorNode(e) ==
  LET p == e.cursor IN
  CASE Len(p) = 1 -> e.root[p[1]]
    [] Len(p) = 2 -> e.root[p[1]].children[p[2]]
    [] OTHER      -> e.root[p[1]].children[p[2]].children[p[3]]

\* #isInsideBlockquote: the anchor or one of its ancestors is a blockquote.
IsInsideBlockquote(e) == e.root[e.cursor[1]].type = "quote"

\* #shouldEscapeFromEmptyListItem (no list item here holds a paragraph, so
\* #shouldEscapeFromEmptyParagraphInListItem adds nothing to it).
ShouldEscapeFromEmptyListItem(e) ==
  AnchorNode(e).type = "listitem" /\ IsNodeEmpty(AnchorNode(e))

\* #shouldEscapeFromEmptyParagraphInBlockquote
ShouldEscapeFromEmptyParagraphInBlockquote(e) ==
  /\ AnchorNode(e).type = "paragraph"
  /\ IsNodeEmpty(AnchorNode(e))
  /\ Len(e.cursor) = 2
  /\ e.root[e.cursor[1]].type = "quote"

\* #splitBlockquoteWithList: the list items after the empty one that are not
\* empty go to a new list in a new blockquote, with the blockquote's non-empty
\* children after the list; a new paragraph between the two blockquotes takes
\* the selection.
SplitBlockquoteWithList(e) ==
  LET q == e.cursor[1]
      l == e.cursor[2]
      k == e.cursor[3]
      blockquote == e.root[q]
      parentList == blockquote.children[l]
      listItemsAfter == NonEmptyNodes(After(parentList.children, k))
      siblings == After(blockquote.children, l)
      newBlockquote ==
        QuoteNode(RemoveTrailingEmptyNodes(
          <<ListNode(listItemsAfter)>> \o NonEmptyNodes(siblings)))
      remaining ==
        RemoveTrailingEmptyNodes(
          SubSeq(parentList.children, 1, k - 1)
            \o EmptyNodes(After(parentList.children, k)))
      before == SubSeq(blockquote.children, 1, l - 1)
      first ==
        IF remaining = <<>>
          THEN IF before \o EmptyNodes(siblings) = <<>>
                 THEN <<>>
                 ELSE <<QuoteNode(before \o EmptyNodes(siblings))>>
          ELSE <<QuoteNode(RemoveTrailingEmptyNodes(
                   before \o <<ListNode(remaining)>> \o EmptyNodes(siblings)))>>
  IN [e EXCEPT !.root = ReplaceAt(e.root, q,
                          first \o <<ParagraphNode(""), newBlockquote>>),
               !.cursor = <<q + Len(first)>>]

\* #escapeFromList
EscapeFromList(e) ==
  LET p == e.cursor
      isInBlockquote == Len(p) = 3
      parentList == IF isInBlockquote THEN e.root[p[1]].children[p[2]]
                                      ELSE e.root[p[1]]
      k == p[Len(p)]
      shorter == ListNode(ReplaceAt(parentList.children, k, <<>>))
  IN IF isInBlockquote /\ NonEmptyNodes(After(parentList.children, k)) # <<>>
       THEN SplitBlockquoteWithList(e)
     ELSE IF isInBlockquote
       THEN [e EXCEPT !.root[p[1]].children =
                         ReplaceAt(@, p[2], <<shorter, ParagraphNode("")>>),
                      !.cursor = <<p[1], p[2] + 1>>]
     ELSE [e EXCEPT !.root = ReplaceAt(@, p[1], <<shorter, ParagraphNode("")>>),
                    !.cursor = <<p[1] + 1>>]

\* #splitBlockquote
SplitBlockquote(e) ==
  LET q == e.cursor[1]
      c == e.cursor[2]
      blockquote == e.root[q]
      siblingsAfter == NonEmptyNodes(After(blockquote.children, c))
      first ==
        QuoteNode(RemoveTrailingEmptyNodes(
          SubSeq(blockquote.children, 1, c - 1)
            \o EmptyNodes(After(blockquote.children, c))))
      newBlockquote == QuoteNode(RemoveTrailingEmptyNodes(siblingsAfter))
  IN [e EXCEPT !.root = ReplaceAt(e.root, q,
                          <<first, ParagraphNode(""), newBlockquote>>),
               !.cursor = <<q + 1>>]

\* #escapeFromBlockquote
EscapeFromBlockquote(e) ==
  LET q == e.cursor[1]
      c == e.cursor[2]
      blockquote == e.root[q]
  IN IF NonEmptyNodes(After(blockquote.children, c)) # <<>>
       THEN SplitBlockquote(e)
       ELSE [e EXCEPT !.root = ReplaceAt(e.root, q,
                                 <<QuoteNode(ReplaceAt(blockquote.children, c, <<>>)),
                                   ParagraphNode("")>>),
                      !.cursor = <<q + 1>>]

\* #handleLists
HandleLists(e) ==
  IF ShouldEscapeFromEmptyListItem(e)
    THEN [EscapeFromList(e) EXCEPT !.handled = "true"]
    ELSE [e EXCEPT !.handled = "false"]

\* #handleBlockquotes
HandleBlockquotes(e) ==
  IF ShouldEscapeFromEmptyParagraphInBlockquote(e)
    THEN [EscapeFromBlockquote(e) EXCEPT !.handled = "true"]
    ELSE [e EXCEPT !.handled = "false"]

\* #handleEnterKey: what the command listener returns is kept in `handled';
\* a key it does not handle goes on to the editor's own listeners.
HandleEnterKey(e) ==
  IF ~IsInsideBlockquote(e) THEN [e EXCEPT !.handled = "false"]
  ELSE IF HandleLists(e).handled = "true" THEN HandleLists(e)
  ELSE HandleBlockquotes(e)

\* The paths to the paragraphs and list items of the document.
Anchors(root) ==
  {<<b>> : b \in {b \in DOMAIN root : root[b].type = "paragraph"}}
    \cup {<<b, c>> : b \in DOMAIN root, c \in 1..MaxListLen}
    \cup {<<b, c, i>> : b \in DOMAIN root, c \in 1..MaxListLen, i \in 1..MaxListLen}

IsAnchor(root, p) ==
  /\ p[1] \in DOMAIN root
  /\ CASE Len(p) = 1 -> root[p[1]].type = "paragraph"
       [] Len(p) = 2 -> /\ p[2] \in DOMAIN root[p[1]].children
                        /\ \/ root[p[1]].type = "list"
                           \/ /\ root[p[1]].type = "quote"
                              /\ root[p[1]].children[p[2]].type = "paragraph"
       [] OTHER      -> /\ root[p[1]].type = "quote"
                        /\ p[2] \in DOMAIN root[p[1]].children
                        /\ root[p[1]].children[p[2]].type = "list"
                        /\ p[3] \in DOMAIN root[p[1]].children[p[2]].children

ItemLists ==
  UNION {[1..n -> {ListItemNode(t) : t \in Texts}] : n \in 1..MaxListLen}

\* A list at the root, or a list in a blockquote with nothing, an empty
\* paragraph or a paragraph of text after it.
ListDocuments ==
  {<<ListNode(items)>> : items \in ItemLists}
    \cup {<<QuoteNode(<<ListNode(items)>> \o tail)>> :
            items \in ItemLists,
            tail \in {<<>>} \cup {<<ParagraphNode(t)>> : t \in Texts}}

\* The prompt of the editor is connected and idle: nothing here touches it.
IdlePrompt ==
  /\ Is(ConnectedCallback(CHOOSE a \in InlineAttributes : TRUE, <<>>))
  /\ dlog = NoDebounceLog

ListDocument ==
  /\ IdlePrompt
  /\ \E root \in ListDocuments : \E p \in Anchors(root) :
       /\ IsAnchor(root, p)
       /\ editor = [kind |-> "blocks", root |-> root, cursor |-> p,
                    handled |-> "none"]

\* KEY_ENTER_COMMAND reaches the listener monitor() registered.
PressEnter ==
  /\ editor' = HandleEnterKey(editor)
  /\ UNCHANGED <<attrs, doc, el, source, tasks, hist, geometry, dlog>>

\* The user puts the cursor in another paragraph or list item.
Select ==
  /\ \E p \in Anchors(editor.root) :
       /\ IsAnchor(editor.root, p)
       /\ editor' = [editor EXCEPT !.cursor = p, !.handled = "none"]
  /\ UNCHANGED <<attrs, doc, el, source, tasks, hist, geometry, dlog>>

Escaping ==
  \/ PressEnter
  \/ Select

SpecEscaper == ListDocument /\ [][Escaping]_vars

\* C35: Enter with the cursor in an empty list item is handled by
\* FormatEscaper for every list, in a blockquote or not: the key is consumed,
\* the empty item is removed, and the cursor is in a new empty paragraph
\* that follows the list.
C35_EmptyListItemEscapes ==
  [][(ShouldEscapeFromEmptyListItem(editor) /\ PressEnter)
       => /\ editor'.handled = "true"
          /\ AnchorNode(editor').type = "paragraph"
          /\ IsNodeEmpty(AnchorNode(editor'))]_vars


\* ---------------------------------------------------------------------------
\* CommandDispatcher: rotateHeadingFormat.
\*
\* The document is a sequence of lines, each a top-level element with a tag
\* ("p" for a paragraph, "h1" .. "h6" for a heading).  The selection runs
\* from the anchor line to the focus line; anchor 0 is no range selection.
\* `start' and `count' remember the tag of the anchor line when the
\* selection was made and the rotations dispatched since.
\* ---------------------------------------------------------------------------

MaxLines == 2

MaxRotations == 4

Tags == {"p", "h1", "h2", "h3", "h4", "h5", "h6"}

\* A variant that never leaves the headings: after h4 comes h2.
NextTagAmongHeadings(currentTag) ==
  CASE currentTag = "h2" -> "h3"
    [] currentTag = "h3" -> "h4"
    [] OTHER             -> "h2"

\* nextTag of dispatchRotateHeadingFormat; "p" is the code's null, for which
\* the formatting is removed.
NextTag(currentTag) ==
  IF currentTag = "p" THEN "h2"
  ELSE CASE currentTag = "h2" -> "h3"
         [] currentTag = "h3" -> "h4"
         [] currentTag = "h4" -> "p"
         [] OTHER             -> "h2"

SelectedLines(e) ==
  {i \in DOMAIN e.lines :
     \/ e.anchor <= i /\ i <= e.focus
     \/ e.focus <= i /\ i <= e.anchor}

\* contents.insertNodeWrappingEachSelectedLine(() => $createHeadingNode(tag))
InsertNodeWrappingEachSelectedLine(e, tag) ==
  [e EXCEPT !.lines = [i \in DOMAIN e.lines |->
                         IF i \in SelectedLines(e) THEN tag ELSE e.lines[i]]]

\* contents.removeFormattingFromSelectedLines()
RemoveFormattingFromSelectedLines(e) ==
  [e EXCEPT !.lines = [i \in DOMAIN e.lines |->
                         IF i \in SelectedLines(e) THEN "p" ELSE e.lines[i]]]

DispatchRotateHeadingFormat(e) ==
  IF e.anchor = 0 THEN e
  ELSE LET nextTag == NextTag(e.lines[e.anchor])
           rotated == IF nextTag # "p"
                        THEN InsertNodeWrappingEachSelectedLine(e, nextTag)
                        ELSE RemoveFormattingFromSelectedLines(e)
       IN [rotated EXCEPT !.count = @ + 1]

Lines ==
  /\ IdlePrompt
  /\ \E n \in 1..MaxLines : \E lines \in [1..n -> Tags] : \E anchor \in 0..n :
       editor = [kind |-> "lines", lines |-> lines,
                 anchor |-> anchor, focus |-> anchor,
                 start |-> IF anchor = 0 THEN "p" ELSE lines[anchor],
                 count |-> 0]

RotateHeadingFormat ==
  /\ editor.count < MaxRotations
  /\ editor' = DispatchRotateHeadingFormat(editor)
  /\ UNCHANGED <<attrs, doc, el, source, tasks, hist, geometry, dlog>>

\* The user selects from one line to another, or puts the cursor in a line.
SelectLines ==
  /\ \E anchor \in DOMAIN editor.lines : \E focus \in DOMAIN editor.lines :
       editor' = [editor EXCEPT !.anchor = anchor, !.focus = focus,
                                !.start = editor.lines[anchor], !.count = 0]
  /\ UNCHANGED <<attrs, doc, el, source, tasks, hist, geometry, dlog>>

Rotating ==
  \/ RotateHeadingFormat
  \/ SelectLines

SpecHeading == Lines /\ [][Rotating]_vars

HeadingCycle == <<"p", "h2", "h3", "h4">>

\* The tag a line of tag `tag' has after n rotations, by the cycle
\* paragraph, h2, h3, h4; a heading of another level enters it at h2.
RECURSIVE CycledTag(_, _)
CycledTag(tag, n) ==
  IF n = 0 THEN tag
  ELSE IF \E i \in DOMAIN HeadingCycle : HeadingCycle[i] = tag
    THEN LET i == CHOOSE j \in DOMAIN HeadingCycle : HeadingCycle[j] = tag
         IN CycledTag(HeadingCycle[(i % 4) + 1], n - 1)
    ELSE CycledTag("h2", n - 1)

\* C36: repeated rotateHeadingFormat commands on a line cycle its format with
\* period four: paragraph to h2, h2 to h3, h3 to h4, h4 back to paragraph,
\* and a heading of any other level goes to h2; so after four commands a
\* paragraph, h2, h3 or h4 has the format it started with.
C36_HeadingCycle ==
  editor.anchor # 0
    => /\ editor.lines[editor.anchor] = CycledTag(editor.start, editor.count)
       /\ (editor.count = 4 /\ editor.start \in Range(HeadingCycle))
            => editor.lines[editor.anchor] = editor.start
       /\ (editor.count \in 1..3 /\ editor.start \in Range(HeadingCycle))
            => editor.lines[editor.anchor] # editor.start

C36_BackAfterFour ==
  /\ editor.kind = "lines"
  /\ editor.anchor # 0
  /\ editor.count = 4
  /\ editor.start = "h3"
  /\ editor.lines[editor.anchor] = "h3"


\* ---------------------------------------------------------------------------
\* ActionTextAttachmentUploadNode: the upload and the replacement of the node.
\*
\* `node' is what is in the editor under the upload node's key: the upload
\* node, nothing (the user removed it), or nothing because it was replaced,
\* with `attachments' counting the ActionTextAttachmentNodes inserted for it.
\* Every createDOM() of the node makes a figure and starts an upload for it
\* (updateDOM() returns true, so a node marked dirty gets a new figure);
\* `uploads' has one record per figure, with the position of its promise
\* chain and whether the figure shows the error.
\* ---------------------------------------------------------------------------

MaxUploads == 3

Upload(pc) == [pc |-> pc, error |-> FALSE]

\* A variant that replaces without looking the node up.
ShowUploadedAttachmentUnchecked(e, u) ==
  [e EXCEPT !.node = "replaced",
            !.attachments = @ + 1,
            !.uploads[u].pc = "done"]

\* #showUploadedAttachment: latest = $getNodeByKey(this.getKey()), replaced
\* by a new ActionTextAttachmentNode if there is one.
ShowUploadedAttachment(e, u) ==
  IF e.node = "upload"
    THEN [e EXCEPT !.node = "replaced",
                   !.attachments = @ + 1,
                   !.uploads[u].pc = "done"]
    ELSE [e EXCEPT !.uploads[u].pc = "done"]

\* #handleUploadError
HandleUploadError(e, u) ==
  [e EXCEPT !.uploads[u].pc = "error", !.uploads[u].error = TRUE]

\* createDOM(): #loadFigure waits for the file to load into the image of an
\* image attachment and resolves at once for another file; then #startUpload.
CreateDOMOf(e) ==
  [e EXCEPT !.uploads =
     Append(@, Upload(IF e.image THEN "loading" ELSE "uploading"))]

\* The callback of upload.create: the error, or the blob, whose preview is
\* loaded first when it is previewable (#loadFigurePreviewFromBlob).
UploadCompleted(e, u, error, previewable) ==
  IF error THEN HandleUploadError(e, u)
  ELSE IF previewable THEN [e EXCEPT !.uploads[u].pc = "preview"]
  ELSE ShowUploadedAttachment(e, u)

UploadNode ==
  /\ IdlePrompt
  /\ \E image \in BOOLEAN :
       editor = [kind |-> "upload", node |-> "upload", image |-> image,
                 attachments |-> 0, uploads |-> <<>>]

Unchanged == UNCHANGED <<attrs, doc, el, source, tasks, hist, geometry, dlog>>

CreateDOM ==
  /\ editor.node = "upload"
  /\ Len(editor.uploads) < MaxUploads
  /\ editor' = CreateDOMOf(editor)
  /\ Unchanged

\* loadFileIntoImage resolves.
FigureLoaded(u) ==
  /\ editor.uploads[u].pc = "loading"
  /\ editor' = [editor EXCEPT !.uploads[u].pc = "uploading"]
  /\ Unchanged

UploadComplete(u, error, previewable) ==
  /\ editor.uploads[u].pc = "uploading"
  /\ editor' = UploadCompleted(editor, u, error, previewable)
  /\ Unchanged

\* The preview image of the blob fires "load".
PreviewLoaded(u) ==
  /\ editor.uploads[u].pc = "preview"
  /\ editor' = ShowUploadedAttachment(editor, u)
  /\ Unchanged

\* The user deletes the upload node.
RemoveUploadNode ==
  /\ editor.node = "upload"
  /\ editor' = [editor EXCEPT !.node = "removed"]
  /\ Unchanged

Uploading ==
  \/ CreateDOM
  \/ \E u \in DOMAIN editor.uploads : FigureLoaded(u)
  \/ \E u \in DOMAIN editor.uploads : \E error \in BOOLEAN :
       \E previewable \in BOOLEAN : UploadComplete(u, error, previewable)
  \/ \E u \in DOMAIN editor.uploads : PreviewLoaded(u)
  \/ RemoveUploadNode

SpecUpload == UploadNode /\ [][Uploading]_vars

\* The step completes upload u with success: its blob's attachment is shown.
Succeeds(u) ==
  /\ editor.uploads[u].pc \in {"uploading", "preview"}
  /\ editor'.uploads[u].pc = "done"

\* C37: an upload node is replaced by an ActionTextAttachmentNode at most
\* once, and only when an upload succeeds while the node is still in the
\* editor; when the node was removed before, the completion inserts nothing;
\* when an upload fails, its completion does not replace the node, the
\* failed upload never replaces it later, and its figure shows the error.
C37_ReplacedAtMostOnce ==
  [][/\ editor'.attachments <= 1
     /\ editor'.attachments # editor.attachments
          => /\ editor.node = "upload"
             /\ editor'.node = "replaced"
             /\ \E u \in DOMAIN editor.uploads : Succeeds(u)
     /\ editor.node = "removed"
          => editor'.node = "removed" /\ editor'.attachments = editor.attachments
     /\ \A u \in DOMAIN editor.uploads :
          /\ (\E p \in BOOLEAN : UploadComplete(u, TRUE, p))
               => /\ editor'.node = editor.node
                  /\ editor'.attachments = editor.attachments
                  /\ editor'.uploads[u].error
          /\ editor.uploads[u].error
               => editor'.uploads[u] = editor.uploads[u]
          /\ Succeeds(u)
               => (editor'.attachments = editor.attachments + 1
                     <=> editor.node = "upload")]_vars

C37_CompletedAfterRemoval ==
  /\ editor.kind = "upload"
  /\ editor.node = "removed"
  /\ editor.attachments = 0
  /\ \E u \in DOMAIN editor.uploads : editor.uploads[u].pc = "done"
  /\ \E u \in DOMAIN editor.uploads : editor.uploads[u].error


====
